---------------------------- MODULE Spec2Model ----------------------------
(***************************************************************************)
(* A model of extract-articles.py, the ServiceNow knowledge-base export.   *)
(*                                                                         *)
(* Strings are sequences of one-character strings, so that the filename    *)
(* sanitizer is computed character by character as the code computes it.   *)
(* A Python dict is a function whose DOMAIN is the set of keys present.    *)
(* A remote call's response is an input of the action that makes the call. *)
(***************************************************************************)
EXTENDS Integers, Sequences, FiniteSets

VARIABLES
    pc,               \* position of main: "start", "categories", "kb_loop",
                      \* "art_loop", "user_lookup", "exit" ("off": not running)
    exit_status,      \* status the process exits with (set to 1 by sys.exit(1))
    selected_kbs,     \* the allow-list of knowledge base titles (line 40)
    dirs,             \* file system: the directories that exist
    files,            \* file system: path -> content of every regular file
    dirs0,            \* the directories that existed before the run
    knowledge_bases,  \* main: the retained knowledge base records
    categories,       \* main: category sys_id -> category record
    kb_idx,           \* main: position of the knowledge base loop
    articles,         \* main: the article list of the current knowledge base
    art_idx,          \* main: position of the article loop
    cur,              \* main: locals of the article being written
    printed,          \* the summary / warning lines printed so far
    trace,            \* history: remote calls, destination paths, file writes
    san_pc,           \* sanitizer harness: "input", "once", "twice" ("off")
    san_x,            \* sanitizer harness: the input string
    san_y,            \* sanitizer harness: sanitize_filename(san_x)
    san_z             \* sanitizer harness: sanitize_filename(san_y)

mainVars == <<pc, exit_status, selected_kbs, dirs, files, dirs0, knowledge_bases,
              categories, kb_idx, articles, art_idx, cur, printed, trace>>
sanVars == <<san_pc, san_x, san_y, san_z>>
vars == <<mainVars, sanVars>>

-----------------------------------------------------------------------------
(* Bounds of the model *)

\* longest free part of a sanitizer input
MaxLen == 3
\* most knowledge base records in the response of the knowledge base fetch
MaxKBs == 2
\* most article records the server lists during one run
MaxArticles == 2

-----------------------------------------------------------------------------
(* Strings *)

\* the truncation length of sanitize_filename
max_length == 100

invalid_chars == <<"<", ">", ":", "\"", "/", "\\", "|", "?", "*">>

\* str.isspace for the characters of the model
IsSpace(c) == c \in {" ", "\t", "\n"}

\* str.replace(old, new) for one-character old and new
Replace(s, old, new) == [i \in 1..Len(s) |-> IF s[i] = old THEN new ELSE s[i]]

\* for char in invalid_chars: filename = filename.replace(char, '_')
RECURSIVE ReplaceInvalid(_, _)
ReplaceInvalid(s, k) ==
    IF k > Len(invalid_chars) THEN s
    ELSE ReplaceInvalid(Replace(s, invalid_chars[k], "_"), k + 1)

\* str.split(): the maximal runs of non-whitespace characters, in order
Split(s) ==
    LET starts == {i \in 1..Len(s) :
                      ~IsSpace(s[i]) /\ (i = 1 \/ IsSpace(s[i - 1]))}
        start(k) == CHOOSE i \in starts :
                        Cardinality({j \in starts : j <= i}) = k
        end(i) == CHOOSE e \in i..Len(s) :
                      /\ \A j \in i..e : ~IsSpace(s[j])
                      /\ (e = Len(s) \/ IsSpace(s[e + 1]))
    IN  [k \in 1..Cardinality(starts) |-> SubSeq(s, start(k), end(start(k)))]

\* sep.join(words)
RECURSIVE Join(_, _)
Join(words, sep) ==
    IF words = <<>> THEN <<>>
    ELSE IF Len(words) = 1 THEN words[1]
    ELSE words[1] \o sep \o Join(Tail(words), sep)

\* str.rstrip(chars) and str.lstrip(chars)
RStrip(s, chars) ==
    LET keep == {i \in 1..Len(s) : s[i] \notin chars}
    IN  IF keep = {} THEN <<>>
        ELSE SubSeq(s, 1, CHOOSE i \in keep : \A j \in keep : j <= i)

LStrip(s, chars) ==
    LET keep == {i \in 1..Len(s) : s[i] \notin chars}
    IN  IF keep = {} THEN <<>>
        ELSE SubSeq(s, CHOOSE i \in keep : \A j \in keep : i <= j, Len(s))

\* str.strip()
Strip(s) == LStrip(RStrip(s, {" ", "\t", "\n"}), {" ", "\t", "\n"})

unnamed == <<"u", "n", "n", "a", "m", "e", "d">>

sanitize_filename(filename) ==
    IF filename = <<>> THEN unnamed
    ELSE LET f1 == ReplaceInvalid(filename, 1)
             f2 == Join(Split(f1), <<" ">>)
             f3 == Strip(f2)
             f4 == Replace(f3, "\n", " ")
             f5 == Replace(f4, "\t", " ")
             f6 == Replace(f5, " ", "-")
             f7 == RStrip(f6, {"_", "-"})
         IN  IF Len(f7) > max_length
             THEN RStrip(Strip(SubSeq(f7, 1, max_length)), {"_", "-"})
             ELSE f7

-----------------------------------------------------------------------------
(* The sanitizer on bounded inputs *)

SanAlphabet == {"a", "_", "-", " ", "\t", "/"}

RECURSIVE StringsUpTo(_)
StringsUpTo(n) ==
    IF n = 0 THEN {<<>>}
    ELSE LET shorter == StringsUpTo(n - 1)
         IN  shorter \cup {Append(s, c) : s \in shorter, c \in SanAlphabet}

Padding(n) == [i \in 1..n |-> "a"]

\* short strings, and strings whose free part straddles the truncation point
SanInputs ==
    StringsUpTo(MaxLen)
        \cup {Padding(n) \o s : n \in (max_length - MaxLen + 1)..max_length,
                                s \in StringsUpTo(MaxLen)}


-----------------------------------------------------------------------------
(* Dicts, responses and exceptions *)

EmptyDict == <<>>

\* dict.get(key, default)
Get(d, key, default) == IF key \in DOMAIN d THEN d[key] ELSE default

\* Python's "a or b" on strings (None and '' are both falsy)
Or(a, b) == IF a # <<>> THEN a ELSE b

\* the ways requests.request / raise_for_status / response.json can fail
FailKinds == {"ConnectionError", "Timeout", "HTTPError", "RequestException",
              "JSONDecodeError"}

Fail(kind) == [status |-> kind, is_dict |-> FALSE, json |-> EmptyDict]
Ok(json) == [status |-> "ok", is_dict |-> TRUE, json |-> json]
\* a 2xx response whose JSON body is not an object
OkNotDict == [status |-> "ok", is_dict |-> FALSE, json |-> EmptyDict]

\* make_request with the fault that a failed call yields an empty envelope
make_request_returns_empty(resp) ==
    IF resp.status = "ok" THEN [raised |-> "none", response |-> resp]
    ELSE [raised |-> "none", response |-> Ok(EmptyDict)]

\* every except clause of make_request ends in sys.exit(1), which raises
\* SystemExit; SystemExit is a BaseException and not an Exception
make_request(resp) ==
    IF resp.status = "ok" THEN [raised |-> "none", response |-> resp]
    ELSE [raised |-> "SystemExit", response |-> resp]

\* "except KeyError" of the article loop (line 327)
article_except(exc) == exc = "KeyError"

\* the knowledge base handler with the fault that it catches nothing
kb_except_catches_nothing(exc) == FALSE

\* "except KeyError" of the knowledge base loop (line 331)
kb_except(exc) == exc = "KeyError"

\* "except Exception" of main (line 338): SystemExit passes through it
main_except(exc) == exc # "SystemExit"

\* "except Exception" of get_user_details (line 152)
user_except(exc) == exc # "SystemExit"

-----------------------------------------------------------------------------
(* The file system *)

S_articles == <<"a", "r", "t", "i", "c", "l", "e", "s">>
S_repo == <<"r", "e", "p", "o">>
S_dot == <<".">>
S_dotdot == <<".", ".">>
S_md == <<".", "m", "d">>

\* the directory of the script, and the output folder inside it (line 24)
script_dir == <<S_repo>>
output_folder == script_dir \o <<S_articles>>

\* os.path.join(folder, name)
PathJoin(folder, name) == Append(folder, name)

\* the file or directory a path names: "" and "." name the directory itself,
\* ".." its parent
RECURSIVE ResolveFrom(_, _, _)
ResolveFrom(path, i, at) ==
    IF i > Len(path) THEN at
    ELSE IF path[i] = <<>> \/ path[i] = S_dot THEN ResolveFrom(path, i + 1, at)
    ELSE IF path[i] = S_dotdot
         THEN ResolveFrom(path, i + 1,
                          IF at = <<>> THEN at ELSE SubSeq(at, 1, Len(at) - 1))
    ELSE ResolveFrom(path, i + 1, Append(at, path[i]))

Resolve(path) == ResolveFrom(path, 1, <<>>)

Prefixes(p) == {SubSeq(p, 1, n) : n \in 1..Len(p)}

\* os.path.exists / os.makedirs: the directories after create_folder(path)
create_folder(ds, path) ==
    IF Resolve(path) \in ds THEN ds ELSE ds \cup Prefixes(Resolve(path))

\* open(file_path, 'w') and write: the file is created or replaced
write_file(fs, file_path, content) ==
    [p \in DOMAIN fs \cup {Resolve(file_path)} |->
        IF p = Resolve(file_path) THEN content ELSE fs[p]]


-----------------------------------------------------------------------------
(* The records the remote instance can return *)

S_HR == <<"H", "R">>
S_k1 == <<"k", "1">>
S_k3 == <<"k", "3">>
S_c1 == <<"c", "1">>
S_c2 == <<"c", "2">>
S_c9 == <<"c", "9">>
S_a1 == <<"a", "1">>
S_a2 == <<"a", "2">>
S_a3 == <<"a", "3">>
S_a4 == <<"a", "4">>
S_a5 == <<"a", "5">>
S_a6 == <<"a", "6">>
S_u1 == <<"u", "1">>
S_Unknown == <<"U", "n", "k", "n", "o", "w", "n">>
S_UnnamedKB == <<"U", "n", "n", "a", "m", "e", "d", " ", "K", "n", "o", "w", "l",
                 "e", "d", "g", "e", " ", "B", "a", "s", "e">>
S_UnnamedCategory == <<"U", "n", "n", "a", "m", "e", "d", "_", "C", "a", "t", "e",
                       "g", "o", "r", "y">>
S_UnnamedArticle == <<"U", "n", "n", "a", "m", "e", "d", " ", "A", "r", "t", "i",
                      "c", "l", "e", " ">>

\* the knowledge base table of the instance: a record without title, a
\* record without sys_id, a complete record
KBTable ==
    << [sys_id |-> S_k3],
       [title |-> <<"H", "R", " ">>],
       [sys_id |-> S_k1, title |-> S_HR] >>

\* the records of a table at the positions of a set, in table order
RECURSIVE Pick(_, _, _)
Pick(table, positions, i) ==
    IF i > Len(table) THEN <<>>
    ELSE (IF i \in positions THEN <<table[i]>> ELSE <<>>)
             \o Pick(table, positions, i + 1)

\* the lists of at most n records of a table, in table order
Selections(table, n) ==
    {Pick(table, P, 1) : P \in {Q \in SUBSET (1..Len(table)) : Cardinality(Q) <= n}}

\* the lists of at most n distinct records of a set
RECURSIVE DistinctSeqs(_, _)
DistinctSeqs(S, n) ==
    IF n = 0 THEN {<<>>}
    ELSE LET shorter == DistinctSeqs(S, n - 1)
         IN  shorter \cup UNION {{Append(q, r) : r \in S \ {q[i] : i \in 1..Len(q)}} :
                                      q \in shorter}

\* category records; the second one is labelled ".."
CategoryList ==
    << [sys_id |-> S_c1, label |-> <<"P", "/", "Q">>],
       [sys_id |-> S_c2, label |-> S_dotdot] >>

\* a category list with a record that has no sys_id
CategoryListNoId == << [label |-> <<"P">>] >>

\* the full article records, by sys_id
ArticleTable ==
    { [sys_id |-> S_a1, short_description |-> <<"L", " ", " ", "P">>,
       kb_category |-> S_c1, author |-> [value |-> S_u1],
       text |-> << <<"L", " ", "P">>, <<"T">> >>],
      [sys_id |-> S_a2, title |-> <<"L", " ", "P">>, kb_category |-> S_c1],
      [sys_id |-> S_a3, short_description |-> <<>>, title |-> <<>>,
       kb_category |-> S_c9],
      [sys_id |-> S_a4, short_description |-> unnamed],
      [sys_id |-> S_a5, short_description |-> <<>>, title |-> <<"X">>,
       kb_category |-> S_c2],
      [sys_id |-> S_a6, kb_category |-> <<>>] }

\* the records of an article list: ids of the table, a record without
\* sys_id, a record whose sys_id is empty
ArticleListRecords ==
    {[sys_id |-> a.sys_id] : a \in ArticleTable}
        \cup {EmptyDict, [sys_id |-> <<>>]}


KBResponses ==
    {Fail(k) : k \in FailKinds} \cup {OkNotDict, Ok(EmptyDict)}
        \cup {Ok([result |-> q]) : q \in Selections(KBTable, MaxKBs)}

CategoryResponses ==
    {Fail(k) : k \in FailKinds}
        \cup {OkNotDict, Ok([result |-> CategoryList]),
              Ok([result |-> CategoryListNoId])}

ArticleListResponses(budget) ==
    {Fail(k) : k \in FailKinds} \cup {Ok(EmptyDict)}
        \cup {Ok([result |-> q]) : q \in DistinctSeqs(ArticleListRecords, budget)}

\* the record of the id if the table has one, an envelope without result
ArticleResponses(id) ==
    {Fail(k) : k \in FailKinds} \cup {Ok(EmptyDict)}
        \cup {Ok([result |-> a]) : a \in {b \in ArticleTable : b.sys_id = id}}

UserResponses ==
    {Fail(k) : k \in FailKinds}
        \cup {OkNotDict, Ok(EmptyDict),
              Ok([result |-> [first_name |-> <<"A">>, last_name |-> <<"B">>]])}


-----------------------------------------------------------------------------
(* Composing the document of an article *)

\* convert_html_to_markdown, on a body given as its paragraphs: the lines of
\* the Markdown text (paragraphs separated by one blank line, stripped)
RECURSIVE convert_html_to_markdown(_)
convert_html_to_markdown(html) ==
    IF html = <<>> THEN << <<>> >>
    ELSE IF Len(html) = 1 THEN << Strip(html[1]) >>
    ELSE << Strip(html[1]), <<>> >> \o convert_html_to_markdown(Tail(html))

StartsWith(s, prefix) ==
    Len(s) >= Len(prefix) /\ SubSeq(s, 1, Len(prefix)) = prefix

\* the loop that drops a duplicate title from the head of the content
RECURSIVE DropTitleLines(_, _)
DropTitleLines(content_lines, title) ==
    IF content_lines # <<>>
       /\ (\/ Strip(content_lines[1]) = <<>>
           \/ StartsWith(Strip(content_lines[1]), <<"#", " ">> \o title)
           \/ Strip(content_lines[1]) = title)
    THEN DropTitleLines(Tail(content_lines), title)
    ELSE content_lines

\* the loop that keeps one blank line of every run of blank lines
RECURSIVE CollapseBlankLines(_, _)
CollapseBlankLines(content_lines, prev_blank) ==
    IF content_lines = <<>> THEN <<>>
    ELSE LET is_blank == Strip(content_lines[1]) = <<>>
         IN  (IF is_blank /\ prev_blank THEN <<>> ELSE <<content_lines[1]>>)
                 \o CollapseBlankLines(Tail(content_lines), is_blank)

\* '\n'.join(lines).strip(), as lines
RECURSIVE StripLines(_)
StripLines(lines) ==
    IF lines = <<>> THEN <<>>
    ELSE IF Strip(lines[1]) = <<>> THEN StripLines(Tail(lines))
    ELSE IF Strip(lines[Len(lines)]) = <<>>
         THEN StripLines(SubSeq(lines, 1, Len(lines) - 1))
    ELSE lines

Truthy(pair) == pair[2] # <<>>

\* format_article_markdown after the author is resolved: the document, or the
\* KeyError of metadata['title'] when the title was filtered out as empty
format_article_markdown(article_data, content_lines, author_details) ==
    LET title0 == Strip(Or(Get(article_data, "short_description", <<>>),
                           Get(article_data, "title", <<>>)))
        title == Join(Split(title0), <<" ">>)
        metadata ==
            << <<"title", title>>,
               <<"author", author_details.name>>,
               <<"author_sys_id", author_details.sys_id>>,
               <<"created_date", Get(article_data, "sys_created_on", <<>>)>>,
               <<"updated_date", Get(article_data, "sys_updated_on", <<>>)>>,
               <<"views", Get(article_data, "view_count", <<>>)>>,
               <<"rating", Get(article_data, "rating", <<>>)>>,
               <<"knowledge_base", Get(article_data, "kb_knowledge_base.title", <<>>)>>,
               <<"category", Get(article_data, "kb_category.label", <<>>)>>,
               <<"sys_id", Get(article_data, "sys_id", <<>>)>> >>
        kept == SelectSeq(metadata, Truthy)
        frontmatter == [i \in 1..Len(kept) |-> <<kept[i][1], Strip(kept[i][2])>>]
    IN  IF title = <<>>
        THEN [raised |-> "KeyError", doc |-> EmptyDict]
        ELSE [raised |-> "none",
              doc |-> [frontmatter |-> frontmatter,
                       heading |-> Strip(title),
                       body |-> StripLines(CollapseBlankLines(
                                   DropTitleLines(content_lines, Strip(title)),
                                   FALSE))]]

author_unknown(user_sys_id) == [name |-> S_Unknown, sys_id |-> user_sys_id]

\* get_user_details for a non-empty user_sys_id, given the response of the
\* user fetch
get_user_details(user_sys_id, resp) ==
    LET r == make_request(resp)
        exc == IF r.raised # "none" THEN r.raised
               ELSE IF ~r.response.is_dict THEN "AttributeError"
               ELSE "none"
        user == Get(r.response.json, "result", EmptyDict)
        name == Strip(Get(user, "first_name", <<>>) \o <<" ">>
                          \o Get(user, "last_name", <<>>))
    IN  IF exc = "none"
        THEN [raised |-> "none",
              value |-> [name |-> Or(name, S_Unknown), sys_id |-> user_sys_id]]
        ELSE IF user_except(exc)
        THEN [raised |-> "none", value |-> author_unknown(user_sys_id)]
        ELSE [raised |-> exc, value |-> author_unknown(user_sys_id)]


-----------------------------------------------------------------------------
(* The state of main as a record, and the steps of main as functions of it *)

State ==
    [pc |-> pc, exit_status |-> exit_status, selected_kbs |-> selected_kbs,
     dirs |-> dirs, files |-> files, dirs0 |-> dirs0,
     knowledge_bases |-> knowledge_bases, categories |-> categories,
     kb_idx |-> kb_idx, articles |-> articles, art_idx |-> art_idx,
     cur |-> cur, printed |-> printed, trace |-> trace]

Set(n) ==
    /\ pc' = n.pc
    /\ exit_status' = n.exit_status
    /\ selected_kbs' = n.selected_kbs
    /\ dirs' = n.dirs
    /\ files' = n.files
    /\ dirs0' = n.dirs0
    /\ knowledge_bases' = n.knowledge_bases
    /\ categories' = n.categories
    /\ kb_idx' = n.kb_idx
    /\ articles' = n.articles
    /\ art_idx' = n.art_idx
    /\ cur' = n.cur
    /\ printed' = n.printed
    /\ trace' = n.trace

Say(s, line) == [s EXCEPT !.printed = @ \cup {line}]
Log(s, event) == [s EXCEPT !.trace = Append(@, event)]

\* the process ends; the loop variables are dead from here on
Exit(s, status) ==
    [s EXCEPT !.pc = "exit", !.exit_status = status,
              !.articles = <<>>, !.art_idx = 0, !.cur = EmptyDict]

\* an exception reaches the try of main (lines 242, 338-340): an Exception is
\* reported and turned into sys.exit(1); SystemExit(1) leaves the process
RaiseInMain(s, exc) ==
    IF main_except(exc) THEN Exit(Say(s, "error"), 1) ELSE Exit(s, 1)

\* the end of one pass of the knowledge base loop (lines 269, 335-336)
ContinueKB(s) ==
    IF s.kb_idx < Len(s.knowledge_bases)
    THEN [s EXCEPT !.pc = "kb_loop", !.kb_idx = @ + 1,
                   !.articles = <<>>, !.art_idx = 0, !.cur = EmptyDict]
    ELSE Exit(Say(s, "success"), 0)

\* an exception reaches the try of the knowledge base loop (lines 270, 331-333)
RaiseInKB(s, exc) ==
    IF kb_except(exc) THEN ContinueKB(Say(s, "warning_kb"))
    ELSE RaiseInMain(s, exc)

\* the end of one pass of the article loop (line 290)
ContinueArticle(s) ==
    IF s.art_idx < Len(s.articles)
    THEN [s EXCEPT !.pc = "art_loop", !.art_idx = @ + 1, !.cur = EmptyDict]
    ELSE ContinueKB(s)

\* an exception reaches the try of the article loop (lines 291, 327-329)
RaiseInArticle(s, exc) ==
    IF article_except(exc) THEN ContinueArticle(Say(s, "warning_article"))
    ELSE RaiseInKB(s, exc)

\* the filter of line 259
kb_selected(kb, selected) ==
    \E i \in 1..Len(selected) : Strip(Get(kb, "title", <<>>)) = selected[i]

\* "if not knowledge_bases" with the fault that the list is never taken as empty
never_empty(kbs) == FALSE

\* "if not knowledge_bases" (line 252)
no_knowledge_bases(kbs) == kbs = <<>>

\* lines 243-262, given the response of the knowledge base fetch
fetch_knowledge_bases(s, resp) ==
    LET r == make_request(resp)
        fetched == Get(r.response.json, "result", <<>>)
        s1 == Log([s EXCEPT !.dirs = create_folder(@, output_folder)],
                  [op |-> "request", what |-> "knowledge_bases",
                   ok |-> resp.status = "ok", is_dict |-> resp.is_dict,
                   list |-> fetched])
        kept == IF s.selected_kbs # <<>>
                THEN SelectSeq(fetched, LAMBDA kb : kb_selected(kb, s.selected_kbs))
                ELSE fetched
    IN  IF r.raised # "none" THEN RaiseInMain(s1, r.raised)
        ELSE IF ~r.response.is_dict THEN RaiseInMain(s1, "AttributeError")
        ELSE IF no_knowledge_bases(fetched)
             THEN Exit(Say(s1, "warning_no_knowledge_bases"), 0)
        ELSE IF s.selected_kbs # <<>> /\ kept = <<>>
             THEN Exit(Say(s1, "warning_no_matching"), 0)
        ELSE [s1 EXCEPT !.knowledge_bases = kept, !.pc = "categories"]

\* the dict comprehension of line 266: a later record replaces an earlier one
category_dict(cats) ==
    [id \in {cats[i].sys_id : i \in 1..Len(cats)} |->
        cats[CHOOSE i \in 1..Len(cats) :
                /\ cats[i].sys_id = id
                /\ \A j \in 1..Len(cats) : cats[j].sys_id = id => j <= i]]

\* lines 265-269, given the response of the category fetch
fetch_categories(s, resp) ==
    LET r == make_request(resp)
        cats == Get(r.response.json, "result", <<>>)
        s1 == Log(s, [op |-> "request", what |-> "categories",
                      ok |-> resp.status = "ok", is_dict |-> resp.is_dict,
                      list |-> cats])
    IN  IF r.raised # "none" THEN RaiseInMain(s1, r.raised)
        ELSE IF ~r.response.is_dict THEN RaiseInMain(s1, "AttributeError")
        ELSE IF \E i \in 1..Len(cats) : "sys_id" \notin DOMAIN cats[i]
             THEN RaiseInMain(s1, "KeyError")
        ELSE IF s.knowledge_bases = <<>>
             THEN Exit(Say([s1 EXCEPT !.categories = category_dict(cats)],
                             "success"), 0)
        ELSE [s1 EXCEPT !.categories = category_dict(cats),
                        !.pc = "kb_loop", !.kb_idx = 1]

\* lines 272-273
kb_folder_of(kb) ==
    PathJoin(output_folder, sanitize_filename(Get(kb, "title", S_UnnamedKB)))

\* lines 270-287 for a knowledge base record, given the response of the
\* article list fetch (not made when kb['sys_id'] raises KeyError)
process_knowledge_base(s, resp) ==
    LET kb == s.knowledge_bases[s.kb_idx]
        s1 == [s EXCEPT !.dirs = create_folder(@, kb_folder_of(kb))]
        r == make_request(resp)
        found == Get(r.response.json, "result", <<>>)
        s2 == Log(s1, [op |-> "request", what |-> "articles",
                       ok |-> resp.status = "ok", is_dict |-> resp.is_dict,
                       kb |-> s.kb_idx, list |-> found])
    IN  IF "sys_id" \notin DOMAIN kb THEN RaiseInKB(s1, "KeyError")
        ELSE IF r.raised # "none" THEN RaiseInKB(s2, r.raised)
        ELSE IF ~r.response.is_dict THEN RaiseInKB(s2, "AttributeError")
        ELSE IF found = <<>> THEN ContinueKB(Say(s2, "no_articles"))
        ELSE [s2 EXCEPT !.articles = found, !.art_idx = 1, !.pc = "art_loop"]

\* "if not article_id" with the fault that only an absent key counts
only_absent_id(article) == "sys_id" \notin DOMAIN article

\* "if not article_id" (lines 293-294)
no_article_id(article) == Get(article, "sys_id", <<>>) = <<>>

\* lines 171-221 and 238-239: compose the document and write the file
save_article(s, article_data, file_path, author_details) ==
    LET f == format_article_markdown(
                 article_data,
                 convert_html_to_markdown(Get(article_data, "text", <<>>)),
                 author_details)
    IN  IF f.raised # "none" THEN RaiseInArticle(s, f.raised)
        ELSE ContinueArticle(
                 Log([s EXCEPT !.files = write_file(@, file_path, f.doc)],
                     [op |-> "write", kb |-> s.kb_idx, pos |-> s.art_idx,
                      article |-> article_data, path |-> file_path,
                      doc |-> f.doc]))

\* lines 291-325 and 232-235, 164-169 for an article record, given the
\* response of the full-record fetch (not made when the record has no sys_id)
process_article(s, resp) ==
    LET article == s.articles[s.art_idx]
        article_id == Get(article, "sys_id", <<>>)
        r == make_request(resp)
        s1 == Log(s, [op |-> "request", what |-> "article",
                      ok |-> resp.status = "ok", is_dict |-> resp.is_dict,
                      kb |-> s.kb_idx, pos |-> s.art_idx])
        article_data == r.response.json["result"]
        original_title ==
            Strip(Or(Get(article_data, "short_description", <<>>),
                     Get(article_data, "title", S_UnnamedArticle \o article_id)))
        article_title == sanitize_filename(original_title)
        category_id == Get(article_data, "kb_category", <<>>)
        kb_folder == kb_folder_of(s.knowledge_bases[s.kb_idx])
        has_category == category_id # <<>> /\ category_id \in DOMAIN s.categories
        category_folder ==
            PathJoin(kb_folder,
                     sanitize_filename(Get(s.categories[category_id], "label",
                                           S_UnnamedCategory)))
        save_folder == IF has_category THEN category_folder ELSE kb_folder
        file_path == PathJoin(save_folder, article_title \o S_md)
        s2 == Log([s1 EXCEPT !.dirs = IF has_category
                                      THEN create_folder(@, category_folder)
                                      ELSE @],
                  [op |-> "map", kb |-> s.kb_idx, pos |-> s.art_idx,
                   article |-> article_data, path |-> file_path])
        author_sys_id == Get(Get(article_data, "author", EmptyDict), "value", <<>>)
    IN  IF no_article_id(article) THEN ContinueArticle(s)
        ELSE IF r.raised # "none" THEN RaiseInArticle(s1, r.raised)
        ELSE IF ~r.response.is_dict THEN RaiseInArticle(s1, "TypeError")
        ELSE IF "result" \notin DOMAIN r.response.json
             THEN RaiseInArticle(s1, "KeyError")
        ELSE IF author_sys_id = <<>>
             THEN save_article(s2, article_data, file_path, author_unknown(<<>>))
        ELSE [s2 EXCEPT !.pc = "user_lookup",
                        !.cur = [article_data |-> article_data,
                                 file_path |-> file_path,
                                 author_sys_id |-> author_sys_id]]

\* lines 169-221 and 238-239, given the response of the user fetch
lookup_user(s, resp) ==
    LET u == get_user_details(s.cur.author_sys_id, resp)
        s1 == Log(s, [op |-> "request", what |-> "user",
                      ok |-> resp.status = "ok", is_dict |-> resp.is_dict,
                      kb |-> s.kb_idx, pos |-> s.art_idx])
    IN  IF u.raised # "none" THEN RaiseInArticle(s1, u.raised)
        ELSE save_article(s1, s.cur.article_data, s.cur.file_path, u.value)

-----------------------------------------------------------------------------
(* The export run *)

RECURSIVE Listed(_, _)
\* the article list records the instance has returned so far
Listed(tr, i) ==
    IF i > Len(tr) THEN 0
    ELSE (IF tr[i].op = "request" /\ tr[i].what = "articles"
          THEN Len(tr[i].list) ELSE 0) + Listed(tr, i + 1)

Init ==
    /\ pc = "start"
    /\ exit_status = 0
    /\ selected_kbs \in {<<>>, <<S_HR>>}
    /\ dirs \in {{script_dir}, {script_dir, output_folder}}
    /\ (selected_kbs # <<>> => output_folder \in dirs)
    /\ files = EmptyDict
    /\ dirs0 = dirs
    /\ knowledge_bases = <<>>
    /\ categories = EmptyDict
    /\ kb_idx = 0
    /\ articles = <<>>
    /\ art_idx = 0
    /\ cur = EmptyDict
    /\ printed = {}
    /\ trace = <<>>
    /\ san_pc = "off"
    /\ san_x = <<>>
    /\ san_y = <<>>
    /\ san_z = <<>>

FetchKnowledgeBases ==
    /\ pc = "start"
    /\ \E resp \in KBResponses : Set(fetch_knowledge_bases(State, resp))
    /\ UNCHANGED sanVars

FetchCategories ==
    /\ pc = "categories"
    /\ \E resp \in CategoryResponses : Set(fetch_categories(State, resp))
    /\ UNCHANGED sanVars

KnowledgeBaseKeyError ==
    /\ pc = "kb_loop"
    /\ "sys_id" \notin DOMAIN knowledge_bases[kb_idx]
    /\ Set(process_knowledge_base(State, Ok(EmptyDict)))
    /\ UNCHANGED sanVars

FetchArticles ==
    /\ pc = "kb_loop"
    /\ "sys_id" \in DOMAIN knowledge_bases[kb_idx]
    /\ \E resp \in ArticleListResponses(MaxArticles - Listed(trace, 1)) :
          Set(process_knowledge_base(State, resp))
    /\ UNCHANGED sanVars

SkipArticle ==
    /\ pc = "art_loop"
    /\ no_article_id(articles[art_idx])
    /\ Set(process_article(State, Ok(EmptyDict)))
    /\ UNCHANGED sanVars

FetchArticle ==
    /\ pc = "art_loop"
    /\ ~no_article_id(articles[art_idx])
    /\ \E resp \in ArticleResponses(Get(articles[art_idx], "sys_id", <<>>)) :
          Set(process_article(State, resp))
    /\ UNCHANGED sanVars

LookupUser ==
    /\ pc = "user_lookup"
    /\ \E resp \in UserResponses : Set(lookup_user(State, resp))
    /\ UNCHANGED sanVars

Next ==
    \/ FetchKnowledgeBases
    \/ FetchCategories
    \/ KnowledgeBaseKeyError
    \/ FetchArticles
    \/ SkipArticle
    \/ FetchArticle
    \/ LookupUser

Spec == Init /\ [][Next]_vars

-----------------------------------------------------------------------------
(* The sanitizer applied once and twice to every bounded input *)

InitSanitize ==
    /\ pc = "off"
    /\ exit_status = 0
    /\ selected_kbs = <<>>
    /\ dirs = {}
    /\ files = EmptyDict
    /\ dirs0 = {}
    /\ knowledge_bases = <<>>
    /\ categories = EmptyDict
    /\ kb_idx = 0
    /\ articles = <<>>
    /\ art_idx = 0
    /\ cur = EmptyDict
    /\ printed = {}
    /\ trace = <<>>
    /\ san_pc = "input"
    /\ san_x \in SanInputs
    /\ san_y = <<>>
    /\ san_z = <<>>

SanitizeOnce ==
    /\ san_pc = "input"
    /\ san_y' = sanitize_filename(san_x)
    /\ san_pc' = "once"
    /\ UNCHANGED <<san_x, san_z, mainVars>>

SanitizeTwice ==
    /\ san_pc = "once"
    /\ san_z' = sanitize_filename(san_y)
    /\ san_pc' = "twice"
    /\ UNCHANGED <<san_x, san_y, mainVars>>

NextSanitize == SanitizeOnce \/ SanitizeTwice

SpecSanitize == InitSanitize /\ [][NextSanitize]_vars


-----------------------------------------------------------------------------
(* Properties of the sanitizer *)

\* C5: sanitize_filename is idempotent: applied to its own result it returns
\* that result, for every input string.
C5_Idempotent == san_pc = "twice" => san_z = san_y

\* C6: sanitize_filename returns a non-empty string of at most 100 characters
\* that holds none of < > : " / \ | ? * and neither begins nor ends with '_',
\* '-' or whitespace.
C6_WellFormedSegment ==
    san_pc \in {"once", "twice"} =>
        /\ san_y # <<>>
        /\ Len(san_y) <= 100
        /\ \A i \in 1..Len(san_y) :
              san_y[i] \notin {"<", ">", ":", "\"", "/", "\\", "|", "?", "*"}
        /\ san_y[1] \notin {"_", "-", " ", "\t", "\n"}
        /\ san_y[Len(san_y)] \notin {"_", "-", " ", "\t", "\n"}

-----------------------------------------------------------------------------
(* Properties of the export run *)

Events == {trace[i] : i \in 1..Len(trace)}
Requests(what) == {e \in Events : e.op = "request" /\ e.what = what}
Maps == {e \in Events : e.op = "map"}
Writes == {e \in Events : e.op = "write"}

InLoops == pc \in {"kb_loop", "art_loop", "user_lookup"}
Completed == pc = "exit" /\ "success" \in printed

\* the run has gone past knowledge base k / past record j of its article list
PassedKB(k) == Completed \/ (InLoops /\ kb_idx > k)
PassedArticle(k, j) ==
    PassedKB(k) \/ (InLoops /\ kb_idx = k /\ pc # "kb_loop" /\ art_idx > j)

LacksId(rec) == "sys_id" \notin DOMAIN rec \/ rec.sys_id = <<>>

\* a remote call that failed: connection error, timeout, status, invalid JSON
Failed(e) == e.op = "request" /\ ~e.ok

\* C1: a failed user lookup never aborts the export: the article's file is
\* still written, with author "Unknown" and the original author id, and the
\* run goes on.
C1_UserLookupNeverAborts ==
    \A i \in 1..Len(trace) :
        (Failed(trace[i]) /\ trace[i].what = "user") =>
            /\ ~(pc = "exit" /\ exit_status # 0)
            /\ i < Len(trace)
            /\ trace[i + 1].op = "write"
            /\ trace[i + 1].kb = trace[i].kb
            /\ trace[i + 1].pos = trace[i].pos
            /\ \E n \in 1..Len(trace[i + 1].doc.frontmatter) :
                  trace[i + 1].doc.frontmatter[n] = <<"author", S_Unknown>>

\* C7: a failed remote call other than a user lookup is fatal: the process
\* ends with a non-zero exit status, the failed call is the last remote call
\* and nothing is written after it, and the success line is never printed.
C7_FailedCallIsFatal ==
    \A i \in 1..Len(trace) :
        (Failed(trace[i]) /\ trace[i].what # "user") =>
            /\ i = Len(trace)
            /\ pc = "exit"
            /\ exit_status # 0
            /\ "success" \notin printed

\* a full-record fetch fails after an earlier article was written
C7_Witness ==
    /\ \E e \in Requests("article") : Failed(e)
    /\ Writes # {}
    /\ pc = "exit"

ZeroKnowledgeBases ==
    \E e \in Requests("knowledge_bases") : e.ok /\ e.is_dict /\ e.list = <<>>

\* C3 as stated: when the knowledge base fetch returns zero knowledge bases
\* the run creates no directory at all, prints a warning, fetches neither
\* categories nor articles and ends with exit status 0.
C3_NoDirectoryAtAll ==
    ZeroKnowledgeBases =>
        /\ dirs = dirs0
        /\ DOMAIN files = {}
        /\ "warning_no_knowledge_bases" \in printed
        /\ Len(trace) = 1
        /\ pc = "exit"
        /\ exit_status = 0

\* C3: when the knowledge base fetch returns zero knowledge bases the run
\* creates no directory other than the output folder (made before the fetch
\* when it does not exist), writes no file, prints a warning, fetches neither
\* categories nor articles and ends with exit status 0.
C3_OnlyOutputFolder ==
    ZeroKnowledgeBases =>
        /\ dirs = dirs0 \cup {output_folder}
        /\ DOMAIN files = {}
        /\ "warning_no_knowledge_bases" \in printed
        /\ Len(trace) = 1
        /\ pc = "exit"
        /\ exit_status = 0

\* zero knowledge bases, and the output folder did not exist before the run
C3_Witness == ZeroKnowledgeBases /\ output_folder \notin dirs0 /\ pc = "exit"

\* the article list the instance returned for knowledge base k
ListedFor(k) == {e.list : e \in {r \in Requests("articles") : r.kb = k /\ r.ok}}

\* the events of record j of the article list of knowledge base k
EventsOf(k, j) ==
    {e \in Events : /\ \/ e.op \in {"map", "write"}
                       \/ e.op = "request" /\ e.what \in {"article", "user"}
                    /\ e.kb = k
                    /\ e.pos = j}

\* a step of the article loop on a record without sys_id
SkipStep ==
    (pc = "art_loop" /\ LacksId(articles[art_idx])) =>
        /\ UNCHANGED <<dirs, files, trace, exit_status, knowledge_bases, categories>>
        /\ \/ pc' = "art_loop" /\ art_idx' = art_idx + 1 /\ articles' = articles
              /\ kb_idx' = kb_idx /\ printed' = printed
           \/ pc' = "kb_loop" /\ kb_idx' = kb_idx + 1 /\ printed' = printed
              /\ art_idx = Len(articles)
           \/ pc' = "exit" /\ printed' = printed \cup {"success"}
              /\ art_idx = Len(articles) /\ kb_idx = Len(knowledge_bases)

\* C2: an article list record without sys_id (absent or empty) is skipped:
\* no full-record fetch is made and no file is written for it; the step that
\* skips it changes nothing but the position of the loop, and every record
\* with a sys_id that the run has gone past was fetched.
C2_RecordWithoutIdSkipped ==
    /\ [](\A k \in 1..Len(knowledge_bases) : \A list \in ListedFor(k) :
            \A j \in 1..Len(list) :
                /\ LacksId(list[j]) => EventsOf(k, j) = {}
                /\ (PassedArticle(k, j) /\ ~LacksId(list[j])) =>
                       \E e \in EventsOf(k, j) :
                           e.op = "request" /\ e.what = "article")
    /\ [][SkipStep]_vars

\* a record without sys_id was skipped and the record after it was written
C2_Witness ==
    \E k \in 1..Len(knowledge_bases) : \E list \in ListedFor(k) :
        \E i, j \in 1..Len(list) :
            /\ i < j
            /\ LacksId(list[i])
            /\ \E e \in EventsOf(k, j) : e.op = "write"

\* a remote call whose outcome ends the run
FatalCall(e) ==
    /\ e.op = "request"
    /\ \/ ~e.ok
       \/ ~e.is_dict
       \/ e.what = "categories"
          /\ \E i \in 1..Len(e.list) : "sys_id" \notin DOMAIN e.list[i]

\* a remote call made before the knowledge base loop
BeforeLoop(e) ==
    e.op = "request" /\ e.what \in {"knowledge_bases", "categories"}

\* a step of the knowledge base loop on a record without sys_id
KBKeyErrorStep ==
    (pc = "kb_loop" /\ "sys_id" \notin DOMAIN knowledge_bases[kb_idx]) =>
        /\ UNCHANGED <<files, trace, exit_status, knowledge_bases, categories>>
        /\ "warning_kb" \in printed'
        /\ \/ pc' = "kb_loop" /\ kb_idx' = kb_idx + 1
           \/ pc' = "exit" /\ "success" \in printed'
              /\ kb_idx = Len(knowledge_bases)

\* C8: a knowledge base record without sys_id is isolated: the error is
\* logged, no article list or article of that base is fetched or written, the
\* loop goes on to the next base, whose article list is fetched, and the run
\* exits with a non-zero status only because of a remote call.
C8_FaultyBaseIsolated ==
    /\ [](\A k \in 1..Len(knowledge_bases) :
            /\ "sys_id" \notin DOMAIN knowledge_bases[k] =>
                  /\ \A e \in Events : BeforeLoop(e) \/ e.kb # k
                  /\ PassedKB(k) => "warning_kb" \in printed
            /\ (PassedKB(k) /\ "sys_id" \in DOMAIN knowledge_bases[k]) =>
                  \E e \in Requests("articles") : e.kb = k)
    /\ []((pc = "exit" /\ exit_status # 0) =>
             (trace # <<>> /\ FatalCall(trace[Len(trace)])))
    /\ [][KBKeyErrorStep]_vars

\* a base without sys_id was passed, an article of a later base was written
\* and the run completed with exit status 0
C8_Witness ==
    /\ Completed
    /\ exit_status = 0
    /\ \E k1, k2 \in 1..Len(knowledge_bases) :
          /\ k1 < k2
          /\ "sys_id" \notin DOMAIN knowledge_bases[k1]
          /\ \E e \in Writes : e.kb = k2

\* the title of an article record: short_description if non-empty, else
\* title if non-empty, else the placeholder; whitespace-normalized
ResolvedTitle(article_data) ==
    LET short == Get(article_data, "short_description", <<>>)
        long == Get(article_data, "title", <<>>)
        chosen == IF short # <<>> THEN short
                  ELSE IF long # <<>> THEN long
                  ELSE S_UnnamedArticle \o article_data.sys_id
    IN  Join(Split(chosen), <<" ">>)

\* C4: every article whose full record was fetched and that the run has gone
\* past is exported with a non-empty title: its document has the frontmatter
\* line title: "<resolved title>" and the matching heading.
C4_TitleNeverOmitted ==
    \A m \in Maps :
        PassedArticle(m.kb, m.pos) =>
            \E w \in Writes :
                /\ w.kb = m.kb
                /\ w.pos = m.pos
                /\ w.doc.heading # <<>>
                /\ w.doc.heading = ResolvedTitle(m.article)
                /\ w.doc.frontmatter[1] = <<"title", ResolvedTitle(m.article)>>

IsUnder(path, folder) ==
    Len(path) > Len(folder) /\ SubSeq(path, 1, Len(folder)) = folder

\* the destination of an article of a knowledge base, segment by segment
DestinationOf(kb, article_data) ==
    LET category_id == Get(article_data, "kb_category", <<>>)
        short == Get(article_data, "short_description", <<>>)
        title == Strip(IF short # <<>> THEN short
                       ELSE Get(article_data, "title",
                                S_UnnamedArticle \o article_data.sys_id))
    IN  output_folder
            \o << sanitize_filename(Get(kb, "title", S_UnnamedKB)) >>
            \o (IF category_id # <<>> /\ category_id \in DOMAIN categories
                THEN << sanitize_filename(Get(categories[category_id], "label",
                                              S_UnnamedCategory)) >>
                ELSE <<>>)
            \o << sanitize_filename(title) \o S_md >>

\* every written file has the path of the claim, segment by segment
PathShape ==
    \A w \in Writes :
        /\ w.path = DestinationOf(knowledge_bases[w.kb], w.article)
        /\ Resolve(w.path) \in DOMAIN files

\* C9: every file the run writes has the path
\* <output_root>/<sanitize(kb.title)>/[<sanitize(category.label)>/]<sanitize(title)>.md
\* with the category segment present exactly when the category id is
\* non-empty and known, and no file is written outside its knowledge base's
\* folder.
C9_DestinationInsideBase ==
    /\ PathShape
    /\ \A w \in Writes :
          IsUnder(Resolve(w.path), Resolve(kb_folder_of(knowledge_bases[w.kb])))

\* the events, in order, of the articles that map to the file p
RECURSIVE EventsAt(_, _, _)
EventsAt(op, p, i) ==
    IF i > Len(trace) THEN <<>>
    ELSE (IF trace[i].op = op /\ Resolve(trace[i].path) = p
          THEN << <<trace[i].kb, trace[i].pos>> >> ELSE <<>>)
             \o EventsAt(op, p, i + 1)

\* C10: last write wins: when two or more articles of a completed run map to
\* the same destination, the file is written once per such article, in
\* processing order, and in the end holds the document of the last of them.
C10_LastWriteWins ==
    Completed =>
        \A m \in Maps :
            LET p == Resolve(m.path)
                mapped == EventsAt("map", p, 1)
                last == mapped[Len(mapped)]
            IN  Len(mapped) >= 2 =>
                    /\ EventsAt("write", p, 1) = mapped
                    /\ \E w \in Writes :
                          /\ <<w.kb, w.pos>> = last
                          /\ files[p] = w.doc

=============================================================================
